---- MODULE Spec2Model ----
(***************************************************************************)
(* AnimeRig CharacterRenderer: the per-frame animation core of             *)
(* CharacterRenderer_complex.cpp (idle drivers, blink timer, expression    *)
(* interpolation, Verlet hair/cloth physics with distance constraints).    *)
(*                                                                         *)
(* Numbers.  Every C++ float is a fixed-point integer counting             *)
(* thousandths (Scale): seconds become milliseconds, 0.1f becomes 100,     *)
(* 9.81f becomes 9810.  A float product or quotient is rounded to the      *)
(* nearest thousandth (FMul, FDiv), so every arithmetic step of the code   *)
(* is one rounded step of the model, in the order the code performs them.  *)
(* glm::vec3 is a triple <<x, y, z>>.                                       *)
(***************************************************************************)
EXTENDS Integers, Sequences, FiniteSets, TLC

VARIABLES
    hair,               \* character.parts.hair  : [vertices, particles, constraints]
    skirt,              \* character.parts.skirt : [vertices, particles, constraints]
    currentExpression,  \* character.currentExpression
    breathingOffset,    \* character.breathingOffset.y
    blinkTimer,         \* character.blinkTimer
    windForce,          \* character.windForce
    deltaTime,          \* CharacterRenderer::deltaTime (member)
    lastFrame,          \* CharacterRenderer::lastFrame
    enablePhysics,      \* CharacterRenderer::enablePhysics
    requested,          \* history: the expression most recently handed to AnimateFacialExpression
    lastOp,             \* history: the operation that produced this state, with its inputs
    steps               \* history: number of operations so far (bounds the run)

vars == <<hair, skirt, currentExpression, breathingOffset, blinkTimer, windForce,
          deltaTime, lastFrame, enablePhysics, requested, lastOp, steps>>

progVars == <<hair, skirt, currentExpression, breathingOffset, blinkTimer, windForce,
              deltaTime, lastFrame, enablePhysics>>

----------------------------------------------------------------------------
(* Bounds of the model *)

\* operations per run of the frame loop (Spec)
MaxSteps == 4
\* operations per run of the physics interface (SpecPhysics)
MaxAdvances == 3
\* particles per region drawn by SpecPhysics
MaxParticles == 2
\* operations per run of the expression interface (SpecExpression)
MaxRequests == 3
\* relaxation passes per run of SpecRelax
MaxPasses == 4
\* operations per run of the loading interface (SpecLoad)
MaxLoads == 3

----------------------------------------------------------------------------
(* Fixed-point float arithmetic *)

Scale == 1000

Abs(x) == IF x < 0 THEN -x ELSE x

\* n / d rounded to the nearest integer, halves away from zero (d > 0)
RoundDiv(n, d) ==
    IF n >= 0 THEN (2 * n + d) \div (2 * d) ELSE -((2 * (-n) + d) \div (2 * d))

\* float * float
FMul(a, b) == RoundDiv(a * b, Scale)

\* float / float, b > 0
FDiv(a, b) == RoundDiv(a * Scale, b)

RECURSIVE SqrtSearch(_, _, _)
SqrtSearch(n, lo, hi) ==
    IF lo >= hi THEN lo
    ELSE LET mid == (lo + hi + 1) \div 2
         IN IF mid * mid <= n THEN SqrtSearch(n, mid, hi) ELSE SqrtSearch(n, lo, mid - 1)

\* sqrt(n) rounded to the nearest integer, 0 <= n
FSqrt(n) ==
    LET r == SqrtSearch(n, 0, 40000)
    IN IF n - r * r > r THEN r + 1 ELSE r

\* glm::clamp(x, lo, hi) = min(max(x, lo), hi)
Clamp(x, lo, hi) ==
    LET m == IF x < lo THEN lo ELSE x
    IN IF m > hi THEN hi ELSE m

\* glm::mix(x, y, a) = x * (1 - a) + y * a
Mix(x, y, a) == FMul(x, Scale - a) + FMul(y, a)

----------------------------------------------------------------------------
(* glm::vec3 *)

Vec3(x, y, z) == <<x, y, z>>
VZero == Vec3(0, 0, 0)
VAdd(a, b) == Vec3(a[1] + b[1], a[2] + b[2], a[3] + b[3])
VSub(a, b) == Vec3(a[1] - b[1], a[2] - b[2], a[3] - b[3])
\* vec3 * float
VScale(a, f) == Vec3(FMul(a[1], f), FMul(a[2], f), FMul(a[3], f))
\* glm::length
VLength(a) == FSqrt(a[1] * a[1] + a[2] * a[2] + a[3] * a[3])

----------------------------------------------------------------------------
(* MeshRegion and its physics (SoftBodySimulator) *)

\* float restLength = 0.1f
RestLength == 100

\* glm::vec3(0.0f, -9.81f, 0.0f)
Gravity == Vec3(0, -9810, 0)

\* velocity damping 0.99f
Damping == 990

\* int -> size_t conversion in `i >= region.particles.size()`: a negative int
\* becomes 2^64 + i.  SizeWrap stands for 2^64 within the 32-bit integers of
\* TLC; any value above every list length compares the same way.
SizeWrap == 1073741824

ToSizeT(i) == IF i < 0 THEN SizeWrap + i ELSE i

\* MeshRegion::PhysicsParticle
Particle(pos, old, pin) ==
    [position |-> pos, oldPosition |-> old, acceleration |-> VZero,
     mass |-> Scale, pinned |-> pin]

\* IntegrateParticle without `if (particle.pinned) continue;`
IntegrateParticlePinnedToo(p, wind, dt) ==
    LET velocity == VSub(p.position, p.oldPosition)
        acc == VAdd(Gravity, wind)
    IN [p EXCEPT !.acceleration = acc,
                 !.position = VAdd(p.position,
                                   VAdd(VScale(velocity, Damping), VScale(VScale(acc, dt), dt))),
                 !.oldPosition = p.position]

\* The loop body of UpdateHairPhysics: one Verlet step of one particle
IntegrateParticle(p, wind, dt) ==
    IF p.pinned THEN p
    ELSE LET temp == p.position
             velocity == VSub(p.position, p.oldPosition)
             acc == VAdd(Gravity, wind)
         IN [p EXCEPT !.acceleration = acc,
                      !.position = VAdd(p.position,
                                        VAdd(VScale(velocity, Damping),
                                             VScale(VScale(acc, dt), dt))),
                      !.oldPosition = temp]

\* The integration loop over all particles of a region
Integrate(region, wind, dt) ==
    [region EXCEPT !.particles =
        [k \in DOMAIN region.particles |-> IntegrateParticle(region.particles[k], wind, dt)]]

\* ApplyConstraint with the two corrections applied with swapped signs
ApplyConstraintSwappedSigns(particles, c) ==
    LET i == c[1]
        j == c[2]
        n == Len(particles)
    IN IF ToSizeT(i) >= n \/ ToSizeT(j) >= n THEN particles
       ELSE LET p1 == particles[i + 1]
                p2 == particles[j + 1]
                delta == VSub(p2.position, p1.position)
                distance == VLength(delta)
            IN IF distance > 0
               THEN LET difference == FDiv(RestLength - distance, distance)
                        translate == VScale(VScale(delta, difference), 500)
                        m1 == IF ~p1.pinned
                              THEN [particles EXCEPT ![i + 1].position = VAdd(@, translate)]
                              ELSE particles
                    IN IF ~p2.pinned
                       THEN [m1 EXCEPT ![j + 1].position = VSub(@, translate)]
                       ELSE m1
               ELSE particles

\* The loop body of SatisfyConstraints: one constraint <<i, j>> (0-based indices)
ApplyConstraint(particles, c) ==
    LET i == c[1]
        j == c[2]
        n == Len(particles)
    IN IF ToSizeT(i) >= n \/ ToSizeT(j) >= n THEN particles
       ELSE LET p1 == particles[i + 1]
                p2 == particles[j + 1]
                delta == VSub(p2.position, p1.position)
                distance == VLength(delta)
            IN IF distance > 0
               THEN LET difference == FDiv(RestLength - distance, distance)
                        translate == VScale(VScale(delta, difference), 500)
                        m1 == IF ~p1.pinned
                              THEN [particles EXCEPT ![i + 1].position = VSub(@, translate)]
                              ELSE particles
                    IN IF ~p2.pinned
                       THEN [m1 EXCEPT ![j + 1].position = VAdd(@, translate)]
                       ELSE m1
               ELSE particles

RECURSIVE RelaxFrom(_, _, _)
RelaxFrom(particles, constraints, k) ==
    IF k > Len(constraints) THEN particles
    ELSE RelaxFrom(ApplyConstraint(particles, constraints[k]), constraints, k + 1)

\* SatisfyConstraints returning at the first index out of range instead of
\* `continue`: the constraints after it are not processed
SatisfyConstraintsReturnOnBadIndex(region) ==
    LET n == Len(region.particles)
        bad == { k \in DOMAIN region.constraints :
                    \/ ToSizeT(region.constraints[k][1]) >= n
                    \/ ToSizeT(region.constraints[k][2]) >= n }
        stop == IF bad = {} THEN Len(region.constraints)
                ELSE (CHOOSE k \in bad : \A m \in bad : k <= m) - 1
    IN [region EXCEPT !.particles =
           RelaxFrom(region.particles, SubSeq(region.constraints, 1, stop), 1)]

\* One relaxation pass over region.constraints, in list order
SatisfyConstraints(region) ==
    [region EXCEPT !.particles = RelaxFrom(region.particles, region.constraints, 1)]

\* ApplyPhysicsToMesh copying the particle's oldPosition instead of its position
ApplyPhysicsToMeshOldPosition(region) ==
    [region EXCEPT !.vertices =
        [k \in DOMAIN region.vertices |->
            IF k <= Len(region.particles) THEN region.particles[k].oldPosition
            ELSE region.vertices[k]]]

\* vertices[i].position = particles[i].position for i < min(sizes)
ApplyPhysicsToMesh(region) ==
    [region EXCEPT !.vertices =
        [k \in DOMAIN region.vertices |->
            IF k <= Len(region.particles) THEN region.particles[k].position
            ELSE region.vertices[k]]]

\* One advance of a region: integration, constraint pass, write-back
AdvanceRegion(region, wind, dt) ==
    ApplyPhysicsToMesh(SatisfyConstraints(Integrate(region, wind, dt)))

\* The body of UpdateHairPhysics as a function of character.parts.hair
HairPhysics(h, wind, dt) ==
    IF h.particles = <<>> THEN h
    ELSE AdvanceRegion(h, wind, dt)

\* ClothPhysics without `if (character.parts.skirt.particles.empty()) return;`
ClothPhysicsUnguarded(h, s, wind, dt) == HairPhysics(h, wind, dt)

\* The body of UpdateClothPhysics: guarded by the skirt, it runs UpdateHairPhysics
ClothPhysics(h, s, wind, dt) ==
    IF s.particles = <<>> THEN h
    ELSE HairPhysics(h, wind, dt)

\* particle.pinned = (i < 10)
PinnedLeading == 10

\* InitializePhysicsParticles without `region.particles.clear()`: the new
\* particles are appended to the ones the region already has
InitializePhysicsParticlesAppend(region) ==
    [region EXCEPT !.particles =
        @ \o [k \in DOMAIN region.vertices |->
                [position |-> region.vertices[k], oldPosition |-> region.vertices[k],
                 acceleration |-> VZero, mass |-> Scale,
                 pinned |-> (k - 1 < PinnedLeading)]]]

\* InitializePhysicsParticles: clear, then one particle per vertex
InitializePhysicsParticles(region) ==
    [region EXCEPT !.particles =
        [k \in DOMAIN region.vertices |->
            [position |-> region.vertices[k], oldPosition |-> region.vertices[k],
             acceleration |-> VZero, mass |-> Scale, pinned |-> (k - 1 < PinnedLeading)]]]

----------------------------------------------------------------------------
(* FacialExpression and its blending (ExpressionBlender) *)

EmotionType == {"NEUTRAL", "HAPPY", "SAD", "SURPRISED", "ANGRY", "THINKING", "EXCITED"}

\* FacialExpression(): the member initialisers of the struct
DefaultExpression ==
    [eyeOpenness |-> 1000, mouthOpenness |-> 0, smileIntensity |-> 0, browRaise |-> 0,
     primaryEmotion |-> "NEUTRAL", intensity |-> 500]

\* SetEmotionExpression with the `break;` after the SAD case missing: SAD runs
\* on into the SURPRISED assignments
SetEmotionExpressionFallThrough(cur, emotion, intensity) ==
    LET e0 == [cur EXCEPT !.primaryEmotion = emotion,
                          !.intensity = Clamp(intensity, 0, Scale)]
    IN CASE emotion = "HAPPY" ->
                [e0 EXCEPT !.smileIntensity = intensity,
                           !.eyeOpenness = Scale + FMul(intensity, 200)]
         [] emotion = "SAD" ->
                [e0 EXCEPT !.smileIntensity = FMul(-intensity, 500),
                           !.eyeOpenness = Scale + FMul(intensity, 500),
                           !.browRaise = FMul(intensity, 600),
                           !.mouthOpenness = FMul(intensity, 300)]
         [] emotion = "SURPRISED" ->
                [e0 EXCEPT !.eyeOpenness = Scale + FMul(intensity, 500),
                           !.browRaise = FMul(intensity, 600),
                           !.mouthOpenness = FMul(intensity, 300)]
         [] emotion = "THINKING" ->
                [e0 EXCEPT !.eyeOpenness = Scale - FMul(intensity, 200),
                           !.browRaise = FMul(intensity, 300)]
         [] OTHER -> e0

\* The local `expression` SetEmotion builds and hands to AnimateFacialExpression
SetEmotionExpression(cur, emotion, intensity) ==
    LET e0 == [cur EXCEPT !.primaryEmotion = emotion,
                          !.intensity = Clamp(intensity, 0, Scale)]
    IN CASE emotion = "HAPPY" ->
                [e0 EXCEPT !.smileIntensity = intensity,
                           !.eyeOpenness = Scale + FMul(intensity, 200)]
         [] emotion = "SAD" ->
                [e0 EXCEPT !.smileIntensity = FMul(-intensity, 500),
                           !.eyeOpenness = Scale - FMul(intensity, 300),
                           !.browRaise = FMul(-intensity, 400)]
         [] emotion = "SURPRISED" ->
                [e0 EXCEPT !.eyeOpenness = Scale + FMul(intensity, 500),
                           !.browRaise = FMul(intensity, 600),
                           !.mouthOpenness = FMul(intensity, 300)]
         [] emotion = "THINKING" ->
                [e0 EXCEPT !.eyeOpenness = Scale - FMul(intensity, 200),
                           !.browRaise = FMul(intensity, 300)]
         [] OTHER -> e0

\* InterpolateExpression(target, speed) on character.currentExpression, with the
\* member deltaTime
InterpolateExpression(cur, target, speed, dt) ==
    LET factor == FMul(dt, speed)
    IN [cur EXCEPT !.eyeOpenness = Mix(cur.eyeOpenness, target.eyeOpenness, factor),
                   !.mouthOpenness = Mix(cur.mouthOpenness, target.mouthOpenness, factor),
                   !.smileIntensity = Mix(cur.smileIntensity, target.smileIntensity, factor),
                   !.browRaise = Mix(cur.browRaise, target.browRaise, factor)]

\* InterpolateExpression(expression, 2.0f)
TransitionSpeed == 2000

\* AnimateFacialExpression(expression) on character.currentExpression
AnimateExpression(cur, target, dt) == InterpolateExpression(cur, target, TransitionSpeed, dt)

\* TriggerBlink: eyeOpenness = 0.1f
BlinkExpression(cur) == [cur EXCEPT !.eyeOpenness = 100]

----------------------------------------------------------------------------
(* Idle animation drivers *)

\* The wall clock (glfwGetTime) is read on a grid of a quarter second, where
\* sin(time * 0.25 * 2 * pi) takes the sixteen values of BreathSin.
ClockTick == 250

BreathSin == <<0, 383, 707, 924, 1000, 924, 707, 383,
               0, -383, -707, -924, -1000, -924, -707, -383>>

\* sin(time * breathingFreq * 2.0f * M_PI) * breathingAmp
BreathingOffset(time) == FMul(BreathSin[((time \div ClockTick) % 16) + 1], 20)

\* BlinkThreshold without the 3.0f base
BlinkThresholdNoBase(r) == r * Scale

\* 3.0f + (rand() % 3), r = rand() % 3
BlinkThreshold(r) == 3000 + r * Scale

\* UpdateIdleAnimations(time) with the member deltaTime: the new breathing
\* offset, blink timer and current expression, and whether TriggerBlink ran
UpdateIdleAnimations(time, dt, timer, cur, r) ==
    LET accumulated == timer + dt
        fire == accumulated > BlinkThreshold(r)
    IN [breathing |-> BreathingOffset(time),
        timerAtCheck |-> accumulated,
        fired |-> fire,
        timer |-> IF fire THEN 0 ELSE accumulated,
        expression |-> IF fire THEN BlinkExpression(cur) ELSE cur]

----------------------------------------------------------------------------
(* Operations of CharacterRenderer.  Each one counts a step of the run and  *)
(* records itself in lastOp.                                                *)

Region(vs, ps, cs) == [vertices |-> vs, particles |-> ps, constraints |-> cs]

EmptyRegion == Region(<<>>, <<>>, <<>>)

\* History of the latest blink, kept in lastOp by TriggerBlink and by the frames
\* that follow it without another operation in between: the eyeOpenness the
\* blink overwrote, and the wall-clock time of the frames since; <<>> when no
\* blink is being followed
BlinkStarted(cur) == << cur.eyeOpenness, 0 >>

BlinkAged(op, wallDt) ==
    IF op.op \in {"TriggerBlink", "UpdateAnimation"} /\ op.blink # <<>>
    THEN << op.blink[1], op.blink[2] + wallDt >>
    ELSE <<>>

\* void UpdateHairPhysics(float deltaTime), public
UpdateHairPhysics(dt) ==
    /\ hair' = HairPhysics(hair, windForce, dt)
    /\ lastOp' = [op |-> "UpdateHairPhysics", dt |-> dt]
    /\ steps' = steps + 1
    /\ UNCHANGED <<skirt, currentExpression, breathingOffset, blinkTimer, windForce,
                   deltaTime, lastFrame, enablePhysics, requested>>

\* void UpdateClothPhysics(float deltaTime), public
UpdateClothPhysics(dt) ==
    /\ hair' = ClothPhysics(hair, skirt, windForce, dt)
    /\ lastOp' = [op |-> "UpdateClothPhysics", dt |-> dt]
    /\ steps' = steps + 1
    /\ UNCHANGED <<skirt, currentExpression, breathingOffset, blinkTimer, windForce,
                   deltaTime, lastFrame, enablePhysics, requested>>

\* void SetEmotion(EmotionType emotion, float intensity)
SetEmotion(emotion, intensity) ==
    LET expression == SetEmotionExpression(currentExpression, emotion, intensity)
    IN /\ currentExpression' = AnimateExpression(currentExpression, expression, deltaTime)
       /\ requested' = <<expression>>
       /\ lastOp' = [op |-> "SetEmotion", emotion |-> emotion, intensity |-> intensity]
       /\ steps' = steps + 1
       /\ UNCHANGED <<hair, skirt, breathingOffset, blinkTimer, windForce,
                      deltaTime, lastFrame, enablePhysics>>

\* void AnimateFacialExpression(const FacialExpression& expression)
AnimateFacialExpression(expression) ==
    /\ currentExpression' = AnimateExpression(currentExpression, expression, deltaTime)
    /\ requested' = <<expression>>
    /\ lastOp' = [op |-> "AnimateFacialExpression"]
    /\ steps' = steps + 1
    /\ UNCHANGED <<hair, skirt, breathingOffset, blinkTimer, windForce,
                   deltaTime, lastFrame, enablePhysics>>

\* void TriggerBlink(), public
TriggerBlink ==
    /\ currentExpression' = BlinkExpression(currentExpression)
    /\ lastOp' = [op |-> "TriggerBlink",
                  blink |-> BlinkStarted(currentExpression)]
    /\ steps' = steps + 1
    /\ UNCHANGED <<hair, skirt, breathingOffset, blinkTimer, windForce,
                   deltaTime, lastFrame, enablePhysics, requested>>

\* void SetPhysicsEnabled(bool enabled)
SetPhysicsEnabled(enabled) ==
    /\ enablePhysics' = enabled
    /\ lastOp' = [op |-> "SetPhysicsEnabled"]
    /\ steps' = steps + 1
    /\ UNCHANGED <<hair, skirt, currentExpression, breathingOffset, blinkTimer, windForce,
                   deltaTime, lastFrame, requested>>

\* void LoadCharacter(path): CreateDefaultCharacter, then the particle lists
LoadCharacter ==
    /\ currentExpression' = DefaultExpression
    /\ blinkTimer' = 0
    /\ hair' = IF enablePhysics THEN InitializePhysicsParticles(hair) ELSE hair
    /\ skirt' = IF enablePhysics THEN InitializePhysicsParticles(skirt) ELSE skirt
    /\ lastOp' = [op |-> "LoadCharacter"]
    /\ steps' = steps + 1
    /\ UNCHANGED <<breathingOffset, windForce, deltaTime, lastFrame, enablePhysics,
                   requested>>

\* The calls one UpdateAnimation makes, in the order it makes them
FrameTrace(fired, physics) ==
    <<"UpdateIdleAnimations.breathing", "UpdateIdleAnimations.blinkTimer">>
    \o (IF fired THEN <<"TriggerBlink">> ELSE <<>>)
    \o (IF physics THEN <<"UpdateHairPhysics", "UpdateClothPhysics">> ELSE <<>>)
    \o <<"ApplyMorphTargets">>

\* void UpdateAnimation(float deltaTime).  hostDt is the parameter, which shadows
\* the member inside the function; advance is how far glfwGetTime() has moved
\* since the previous frame; r is rand() % 3.
UpdateAnimation(hostDt, advance, r) ==
    LET currentFrame == lastFrame + advance
        memberDt == currentFrame - lastFrame
        idle == UpdateIdleAnimations(currentFrame, memberDt, blinkTimer,
                                     currentExpression, r)
        hair1 == IF enablePhysics THEN HairPhysics(hair, windForce, hostDt) ELSE hair
        hair2 == IF enablePhysics THEN ClothPhysics(hair1, skirt, windForce, hostDt)
                 ELSE hair1
    IN /\ deltaTime' = memberDt
       /\ lastFrame' = currentFrame
       /\ breathingOffset' = idle.breathing
       /\ blinkTimer' = idle.timer
       /\ currentExpression' = idle.expression
       /\ hair' = hair2
       /\ lastOp' = [op |-> "UpdateAnimation", dt |-> hostDt, wallDt |-> memberDt,
                     fired |-> idle.fired, timerAtCheck |-> idle.timerAtCheck,
                     trace |-> FrameTrace(idle.fired, enablePhysics),
                     blink |-> IF idle.fired THEN BlinkStarted(currentExpression)
                               ELSE BlinkAged(lastOp, memberDt)]
       /\ steps' = steps + 1
       /\ UNCHANGED <<skirt, windForce, enablePhysics, requested>>

\* void SetWindForce(const glm::vec3& force): declared in CharacterRenderer.h,
\* its body is not among the sources; it stores the force
SetWindForce(force) ==
    /\ windForce' = force
    /\ lastOp' = [op |-> "SetWindForce"]
    /\ steps' = steps + 1
    /\ UNCHANGED <<hair, skirt, currentExpression, breathingOffset, blinkTimer,
                   deltaTime, lastFrame, enablePhysics, requested>>

----------------------------------------------------------------------------
(* Initial states.  The renderer is constructed and Initialize() has run   *)
(* (CreateDefaultCharacter); the mesh regions hold what the asset loader   *)
(* put into them, drawn from the sets below.                               *)

Constructed ==
    /\ currentExpression = DefaultExpression
    /\ breathingOffset = 0
    /\ blinkTimer = 0
    /\ windForce = VZero
    /\ deltaTime = 0
    /\ lastFrame = 0
    /\ enablePhysics = TRUE
    /\ requested = <<>>
    /\ lastOp = [op |-> "Initialize"]
    /\ steps = 0

Resting(pos, pin) == Particle(pos, pos, pin)

ParticleChoices ==
    { Resting(VZero, TRUE),
      Resting(Vec3(0, -150, 0), FALSE),
      Particle(Vec3(30, 40, 0), Vec3(30, 30, 0), FALSE),
      Resting(VZero, FALSE) }

ParticleLists == UNION { [1..n -> ParticleChoices] : n \in 0..MaxParticles }

\* std::pair<int,int> lists: valid, reversed, out of range, negative, self
ConstraintLists ==
    { <<>>,
      << <<0, 1>> >>,
      << <<1, 0>>, <<0, 1>> >>,
      << <<-1, 0>>, <<0, 1>> >>,
      << <<1, 0>>, <<0, 2>>, <<0, 1>> >>,
      << <<0, 0>> >> }

VertexLists == { <<>>, << Vec3(7, 7, 7) >>, << Vec3(7, 7, 7), Vec3(8, 8, 8), Vec3(9, 9, 9) >> }

SkirtChoices ==
    { EmptyRegion,
      Region(<< Vec3(1, 1, 1) >>, << Resting(Vec3(1, 1, 1), FALSE) >>, <<>>) }

WindChoices == { VZero, Vec3(5000, 0, -2000) }

PhysDts == { 16, 100 }

----------------------------------------------------------------------------
(* SpecPhysics: the public physics interface on arbitrary loaded regions *)

InitPhysics ==
    /\ Constructed
    /\ \E vs \in VertexLists, ps \in ParticleLists, cs \in ConstraintLists :
          hair = Region(vs, ps, cs)
    /\ skirt \in SkirtChoices

NextPhysics ==
    \/ \E dt \in PhysDts : steps < MaxAdvances /\ UpdateHairPhysics(dt)
    \/ \E dt \in PhysDts : steps < MaxAdvances /\ UpdateClothPhysics(dt)
    \/ \E w \in WindChoices : steps < MaxAdvances /\ SetWindForce(w)

SpecPhysics == InitPhysics /\ [][NextPhysics]_vars

(* C1: a pinned particle's position is the same after a physics advance as *)
(* before it, for every wind force, delta-time and constraint list; as this *)
(* holds of every step, it holds after any number of consecutive advances.  *)
C1_PinnedUnmoved ==
    [][\A k \in DOMAIN hair.particles :
          hair.particles[k].pinned =>
              /\ k \in DOMAIN hair'.particles
              /\ hair'.particles[k].pinned
              /\ hair'.particles[k].position = hair.particles[k].position]_vars

\* An advance under wind moved an unpinned particle that a constraint ties to a
\* pinned one
C1_Witness ==
    /\ lastOp.op = "UpdateHairPhysics"
    /\ steps >= 2
    /\ windForce # VZero
    /\ \E k, m \in DOMAIN hair.particles :
          /\ hair.particles[k].pinned
          /\ ~hair.particles[m].pinned
          /\ hair.particles[m].position # hair.particles[m].oldPosition
          /\ \E n \in DOMAIN hair.constraints : hair.constraints[n] = <<k - 1, m - 1>>

(* C6: UpdateHairPhysics on an empty hair particle list, and               *)
(* UpdateClothPhysics on an empty skirt particle list, change no state of  *)
(* the renderer, however often they are called.                            *)
C6_EmptyRegionNoOp ==
    [][/\ (lastOp'.op = "UpdateHairPhysics" /\ hair.particles = <<>>)
            => UNCHANGED progVars
       /\ (lastOp'.op = "UpdateClothPhysics" /\ skirt.particles = <<>>)
            => UNCHANGED progVars]_vars

\* The cloth advance was called on an empty skirt while the hair has particles,
\* as the second or later operation
C6_Witness ==
    /\ lastOp.op = "UpdateClothPhysics"
    /\ steps >= 2
    /\ skirt.particles = <<>>
    /\ hair.particles # <<>>
    /\ \E k \in DOMAIN hair.particles : ~hair.particles[k].pinned

----------------------------------------------------------------------------
(* SpecRelax: consecutive SatisfyConstraints passes on a two-particle      *)
(* region, one particle pinned, one constraint between the two             *)

Anchor == Vec3(5, 5, 5)

RelaxOffsets ==
    { Vec3(0, 0, 0), Vec3(0, -1, 0), Vec3(0, -50, 0), Vec3(0, -100, 0), Vec3(0, -101, 0),
      Vec3(0, -150, 0), Vec3(30, 40, 0), Vec3(60, 80, 0), Vec3(90, 120, 0),
      Vec3(3, 4, 12), Vec3(200, -300, 600), Vec3(97, -150, 2), Vec3(-450, 700, 999) }

InitRelax ==
    /\ Constructed
    /\ skirt = EmptyRegion
    /\ \E o \in RelaxOffsets, c \in { <<0, 1>>, <<1, 0>> }, pinFirst \in BOOLEAN :
          hair = Region(<<>>,
                        IF pinFirst
                        THEN << Resting(Anchor, TRUE), Resting(VAdd(Anchor, o), FALSE) >>
                        ELSE << Resting(VAdd(Anchor, o), FALSE), Resting(Anchor, TRUE) >>,
                        << c >>)

\* One call of SatisfyConstraints(character.parts.hair)
SatisfyConstraintsPass ==
    /\ steps < MaxPasses
    /\ hair' = SatisfyConstraints(hair)
    /\ lastOp' = [op |-> "SatisfyConstraints"]
    /\ steps' = steps + 1
    /\ UNCHANGED <<skirt, currentExpression, breathingOffset, blinkTimer, windForce,
                   deltaTime, lastFrame, enablePhysics, requested>>

NextRelax == SatisfyConstraintsPass

SpecRelax == InitRelax /\ [][NextRelax]_vars

\* glm::length of the vector between the two particles of a two-particle region
PairDistance(region) ==
    VLength(VSub(region.particles[2].position, region.particles[1].position))

\* d2 is nearer the rest length than d, from the same side; distances within one
\* rounding unit of the rest length count as at rest
Approaches(d, d2) ==
    \/ Abs(d - RestLength) <= 1 /\ Abs(d2 - RestLength) <= 1
    \/ d > RestLength + 1 /\ RestLength - 1 <= d2 /\ d2 < d
    \/ d < RestLength - 1 /\ d < d2 /\ d2 <= RestLength + 1

(* C7 as claimed: every relaxation pass on the two-particle region brings  *)
(* the distance nearer the rest length, from the same side.                *)
C7_EveryPassApproaches ==
    [][Approaches(PairDistance(hair), PairDistance(hair'))]_vars

(* C7 as amended: when the two particles do not coincide, a pass brings    *)
(* their distance nearer the fixed rest length 0.1 from the same side (up  *)
(* to one rounding unit); when they coincide, the pass moves nothing.      *)
C7_PassApproachesUnlessCoincident ==
    [][IF PairDistance(hair) > 0
       THEN Approaches(PairDistance(hair), PairDistance(hair'))
       ELSE hair' = hair]_vars

\* After two or more passes the unpinned particle has moved and is still
\* away from the rest length
C7_Witness ==
    /\ lastOp.op = "SatisfyConstraints"
    /\ steps >= 2
    /\ Len(hair.particles) = 2
    /\ \E k \in 1..2 : /\ ~hair.particles[k].pinned
                       /\ hair.particles[k].position # hair.particles[k].oldPosition
    /\ Abs(PairDistance(hair) - RestLength) > 1

----------------------------------------------------------------------------
(* SpecExpression: the expression interface between frames, on the         *)
(* character Initialize() creates (no hair or skirt geometry)              *)

Intensities == { -500, 0, 250, 500, 1000, 1500 }

\* glfwGetTime() differences between two frames
ExpressionAdvances == { 250, 500, 750, 3500 }

\* values the host passes as UpdateAnimation's parameter
HostDts == { 16, 250 }

DirectTargets ==
    { [DefaultExpression EXCEPT !.mouthOpenness = 400, !.browRaise = -200] }

InitExpression ==
    /\ Constructed
    /\ hair = EmptyRegion
    /\ skirt = EmptyRegion

NextExpression ==
    \/ \E t \in DirectTargets : steps < MaxRequests /\ AnimateFacialExpression(t)
    \/ \E e \in EmotionType, i \in Intensities : steps < MaxRequests /\ SetEmotion(e, i)
    \/ steps < MaxRequests /\ TriggerBlink
    \/ \E h \in HostDts, a \in ExpressionAdvances, r \in 0..2 :
          steps < MaxRequests /\ UpdateAnimation(h, a, r)

SpecExpression == InitExpression /\ [][NextExpression]_vars

----------------------------------------------------------------------------
(* Spec: the frame loop on a loaded character *)

FrameHairChoices ==
    { EmptyRegion,
      Region(<< Vec3(0, 0, 0), Vec3(0, -150, 0) >>,
             << Resting(VZero, TRUE), Resting(Vec3(0, -150, 0), FALSE) >>,
             << <<0, 1>> >>) }

FrameSkirtChoices ==
    { EmptyRegion,
      Region(<< Vec3(9, 0, 0), Vec3(9, -50, 0) >>,
             << Resting(Vec3(9, 0, 0), TRUE), Resting(Vec3(9, -50, 0), FALSE) >>,
             << <<0, 1>> >>) }

FrameAdvances == { 250, 1500, 2000, 3500 }

Init ==
    /\ Constructed
    /\ hair \in FrameHairChoices
    /\ skirt \in FrameSkirtChoices

Next ==
    \/ \E h \in HostDts, a \in FrameAdvances, r \in 0..2 :
          steps < MaxSteps /\ UpdateAnimation(h, a, r)
    \/ \E b \in BOOLEAN : steps < MaxSteps /\ SetPhysicsEnabled(b)
    \/ steps < MaxSteps /\ LoadCharacter
    \/ steps < MaxSteps /\ TriggerBlink

Spec == Init /\ [][Next]_vars

----------------------------------------------------------------------------
(* Claims about the expression interface *)

ExpressionParams == { "eyeOpenness", "mouthOpenness", "smileIntensity", "browRaise" }

(* C2 as claimed: SetEmotion(e, i) requests the target, and leaves the     *)
(* current expression, that SetEmotion(e, clamp(i, 0, 1)) would from the   *)
(* same state.                                                             *)
C2_IntensityClampedBeforeUse ==
    [][lastOp'.op = "SetEmotion" =>
          LET clamped == SetEmotionExpression(currentExpression, lastOp'.emotion,
                                              Clamp(lastOp'.intensity, 0, Scale))
          IN /\ requested' = << clamped >>
             /\ currentExpression' =
                   AnimateExpression(currentExpression, clamped, deltaTime)]_vars

(* C3: for an intensity i in [0,1], the target SetEmotion(e, i) requests   *)
(* is the emotion table's row for e applied to the current expression:     *)
(* HAPPY eye 1+0.2i, smile i; SAD eye 1-0.3i, brow -0.4i, smile -0.5i;     *)
(* SURPRISED eye 1+0.5i, brow 0.6i, mouth 0.3i; THINKING eye 1-0.2i, brow  *)
(* 0.3i; every other parameter, and all four for NEUTRAL, ANGRY and        *)
(* EXCITED, as in the current expression.                                  *)
C3_EmotionTable ==
    [][(lastOp'.op = "SetEmotion" /\ lastOp'.intensity >= 0 /\ lastOp'.intensity <= Scale) =>
          LET e == lastOp'.emotion
              i == lastOp'.intensity
              cur == currentExpression
              t == requested'[1]
          IN /\ Len(requested') = 1
             /\ t.primaryEmotion = e
             /\ t.intensity = i
             /\ 10 * t.eyeOpenness =
                   CASE e = "HAPPY" -> 10 * Scale + 2 * i
                     [] e = "SAD" -> 10 * Scale - 3 * i
                     [] e = "SURPRISED" -> 10 * Scale + 5 * i
                     [] e = "THINKING" -> 10 * Scale - 2 * i
                     [] OTHER -> 10 * cur.eyeOpenness
             /\ 10 * t.browRaise =
                   CASE e = "SAD" -> -4 * i
                     [] e = "SURPRISED" -> 6 * i
                     [] e = "THINKING" -> 3 * i
                     [] OTHER -> 10 * cur.browRaise
             /\ 10 * t.mouthOpenness =
                   CASE e = "SURPRISED" -> 3 * i
                     [] OTHER -> 10 * cur.mouthOpenness
             /\ 10 * t.smileIntensity =
                   CASE e = "HAPPY" -> 10 * i
                     [] e = "SAD" -> -5 * i
                     [] OTHER -> 10 * cur.smileIntensity]_vars

\* SetEmotion(SURPRISED, 1.0) requested eye 1.5, brow 0.6, mouth 0.3
C3_Witness ==
    /\ lastOp.op = "SetEmotion"
    /\ lastOp.emotion = "SURPRISED"
    /\ lastOp.intensity = Scale
    /\ requested # <<>>
    /\ requested[1].eyeOpenness = 1500
    /\ requested[1].browRaise = 600
    /\ requested[1].mouthOpenness = 300

\* c2 is nearer the target t than c, from the same side; values within one
\* rounding unit of the target count as on it
Nearer(c, t, c2) ==
    \/ Abs(c - t) <= 1 /\ Abs(c2 - t) <= 1
    \/ c > t + 1 /\ t - 1 <= c2 /\ c2 < c
    \/ c < t - 1 /\ c < c2 /\ c2 <= t + 1

\* The step was an expression request whose intensity, if any, lies in [0,1]
InRangeRequest(op) ==
    \/ op.op = "AnimateFacialExpression"
    \/ op.op = "SetEmotion" /\ op.intensity >= 0 /\ op.intensity <= Scale

(* C4 as claimed: an interpolation step with delta-time dt > 0 leaves each *)
(* of the four parameters nearer its target, or on it, and never on the    *)
(* other side of the target, whatever dt is.                               *)
C4_StepNeverOvershoots ==
    [][(InRangeRequest(lastOp') /\ deltaTime > 0) =>
          \A f \in ExpressionParams :
              Nearer(currentExpression[f], requested'[1][f], currentExpression'[f])]_vars

(* C9 as claimed: once a target has been requested, every UpdateAnimation  *)
(* frame with dt > 0 moves each parameter of the current expression that   *)
(* is off the target nearer to the most recently requested target.         *)
C9_FramesApproachRequestedTarget ==
    [][(lastOp'.op = "UpdateAnimation" /\ lastOp'.wallDt > 0 /\ ~lastOp'.fired
        /\ requested # <<>>) =>
          \A f \in ExpressionParams :
              Nearer(currentExpression[f], requested[1][f], currentExpression'[f])]_vars

----------------------------------------------------------------------------
(* Claims about the frame loop *)

(* C5: the automatic blink fires only when the accumulated blinkTimer is   *)
(* at least 3 seconds, the timer is zero after it fired, and no frame      *)
(* leaves the timer above 6 seconds.                                       *)
C5_BlinkWindow ==
    /\ blinkTimer <= 6000
    /\ (lastOp.op = "UpdateAnimation" /\ lastOp.fired) =>
          (lastOp.timerAtCheck >= 3000 /\ blinkTimer = 0)

\* A blink fired on a timer accumulated over more than one frame
C5_Witness ==
    /\ lastOp.op = "UpdateAnimation"
    /\ lastOp.fired
    /\ lastOp.timerAtCheck > lastOp.wallDt
    /\ blinkTimer = 0
    /\ currentExpression.eyeOpenness = 100

\* position of call c in a frame's trace, 0 when it was not made
TracePos(trace, c) ==
    IF \E k \in DOMAIN trace : trace[k] = c
    THEN CHOOSE k \in DOMAIN trace : trace[k] = c
    ELSE 0

(* C8 as claimed: every frame runs breathing, then the blink-timer check,  *)
(* then expression interpolation, then the physics advance; interpolation  *)
(* runs in every frame, before that frame's physics.                       *)
C8_FrameOrder ==
    lastOp.op = "UpdateAnimation" =>
        LET t == lastOp.trace
            breathing == TracePos(t, "UpdateIdleAnimations.breathing")
            blink == TracePos(t, "UpdateIdleAnimations.blinkTimer")
            interpolate == TracePos(t, "InterpolateExpression")
            physics == TracePos(t, "UpdateHairPhysics")
        IN /\ 0 < breathing
           /\ breathing < blink
           /\ blink < interpolate
           /\ physics # 0 => interpolate < physics

(* C10 as claimed: in a frame with physics enabled, each of hair and skirt *)
(* with a non-empty particle list is advanced exactly once (integration,   *)
(* constraint pass, write-back of its own particles), whatever the other   *)
(* region holds.                                                           *)
C10_EachRegionAdvancedOnce ==
    [][(lastOp'.op = "UpdateAnimation" /\ enablePhysics) =>
          /\ hair.particles # <<>> =>
                hair' = AdvanceRegion(hair, windForce, lastOp'.dt)
          /\ skirt.particles # <<>> =>
                skirt' = AdvanceRegion(skirt, windForce, lastOp'.dt)]_vars

----------------------------------------------------------------------------
(* Constraints with an index outside the particle list *)

\* An index pair that names two particles of a list of n particles
InRange(c, n) == c[1] >= 0 /\ c[1] < n /\ c[2] >= 0 /\ c[2] < n

\* The constraints of a region that name particles of it, in list order
InRangeConstraints(region) ==
    SelectSeq(region.constraints, LAMBDA c : InRange(c, Len(region.particles)))

(* C11: a hair advance whose constraint list holds constraints with an     *)
(* index outside the particle list (negative ones included) leaves the     *)
(* particles exactly where the same advance over the remaining constraints *)
(* alone, taken in list order, leaves them: the out-of-range constraints   *)
(* move nothing and stop nothing, and the constraint list itself is kept.  *)
C11_OutOfRangeSkipped ==
    [][(lastOp'.op = "UpdateHairPhysics" /\ hair.particles # <<>>) =>
          LET kept == [hair EXCEPT !.constraints = InRangeConstraints(hair)]
          IN /\ hair'.particles = AdvanceRegion(kept, windForce, lastOp'.dt).particles
             /\ hair'.constraints = hair.constraints]_vars

\* After an advance over a list whose first constraint has a negative index
\* and whose second ties a pinned particle to an unpinned one, the unpinned one
\* has been pulled to the rest length
C11_Witness ==
    /\ lastOp.op = "UpdateHairPhysics"
    /\ hair.constraints = << <<-1, 0>>, <<0, 1>> >>
    /\ Len(hair.particles) = 2
    /\ hair.particles[1].pinned
    /\ ~hair.particles[2].pinned
    /\ hair.particles[2].position # hair.particles[2].oldPosition
    /\ Abs(VLength(VSub(hair.particles[2].position, hair.particles[1].position))
             - RestLength) <= 1
----------------------------------------------------------------------------
(* Write-back of the particles to the mesh *)

\* vertices[i] is at particles[i] for every i below both sizes
MeshAtParticles(region) ==
    \A k \in DOMAIN region.vertices :
        k <= Len(region.particles) => region.vertices[k] = region.particles[k].position

----------------------------------------------------------------------------
(* SpecLoad: loading and reloading a character whose hair and skirt have   *)
(* fewer vertices than the pinned leading subset, exactly as many, or more, *)
(* and may hold particles of an earlier load                                *)

\* n vertices, all at different places
LoadVertices(n) == [k \in 1..n |-> Vec3(k, -10 * k, 0)]

LoadVertexCounts == { 0, 2, PinnedLeading, PinnedLeading + 2 }

\* particle lists left by an earlier load of a different mesh
StaleParticleLists ==
    { <<>>,
      << Particle(Vec3(30, 40, 0), Vec3(30, 30, 0), FALSE) >>,
      << Resting(VZero, TRUE), Resting(Vec3(0, -150, 0), FALSE),
         Resting(Vec3(5, 5, 5), FALSE) >> }

InitLoad ==
    /\ Constructed
    /\ \E n \in LoadVertexCounts, ps \in StaleParticleLists :
          hair = Region(LoadVertices(n), ps, <<>>)
    /\ skirt \in { EmptyRegion,
                   Region(LoadVertices(PinnedLeading + 1),
                          << Resting(Vec3(1, 1, 1), FALSE) >>, <<>>) }

NextLoad ==
    \/ steps < MaxLoads /\ LoadCharacter
    \/ \E b \in BOOLEAN : steps < MaxLoads /\ SetPhysicsEnabled(b)
    \/ \E dt \in PhysDts : steps < MaxLoads /\ UpdateHairPhysics(dt)

SpecLoad == InitLoad /\ [][NextLoad]_vars

\* `after` is `before` with its particles initialised from its vertices
InitializedFrom(before, after) ==
    /\ after.vertices = before.vertices
    /\ after.constraints = before.constraints
    /\ Len(after.particles) = Len(before.vertices)
    /\ \A k \in DOMAIN after.particles :
          /\ after.particles[k].position = before.vertices[k]
          /\ after.particles[k].oldPosition = after.particles[k].position
          /\ after.particles[k].acceleration = VZero
          /\ after.particles[k].mass = Scale
          /\ after.particles[k].pinned <=> (k <= 10)

(* C13: a load with physics enabled leaves the hair and the skirt each     *)
(* with exactly one particle per vertex, whatever particles they held      *)
(* before: particle i is at vertex i's current position, its oldPosition   *)
(* equals its position, its acceleration is zero, its mass is 1, and it is *)
(* pinned exactly when i is among the first ten; a second load counts the  *)
(* vertices again and does not append.                                      *)
C13_OneParticlePerVertex ==
    [][(lastOp'.op = "LoadCharacter" /\ enablePhysics) =>
          /\ InitializedFrom(hair, hair')
          /\ InitializedFrom(skirt, skirt')]_vars

\* A second load, after an advance let the unpinned particles fall: twelve
\* particles for twelve vertices, the tenth pinned, the eleventh not, and the
\* eleventh at rest where its vertex had fallen to
C13_Witness ==
    /\ lastOp.op = "LoadCharacter"
    /\ steps >= 3
    /\ Len(hair.vertices) = 12
    /\ Len(hair.particles) = 12
    /\ hair.particles[10].pinned
    /\ ~hair.particles[11].pinned
    /\ hair.particles[11].position # LoadVertices(12)[11]
    /\ hair.particles[11].oldPosition = hair.particles[11].position
    /\ hair.vertices[11] = hair.particles[11].position
(* C14: a blink, from TriggerBlink or from the blink timer, leaves         *)
(* eyeOpenness at the near-closed value at once, and the frames that       *)
(* follow it with no other operation in between bring eyeOpenness back to  *)
(* the value the blink overwrote: at the latest when those frames have     *)
(* covered the shortest blink interval, 3 seconds of wall-clock time.      *)
C14_BlinkRecovers ==
    /\ (lastOp.op = "TriggerBlink" \/ (lastOp.op = "UpdateAnimation" /\ lastOp.fired))
          => currentExpression.eyeOpenness = BlinkExpression(DefaultExpression).eyeOpenness
    /\ ( /\ lastOp.op = "UpdateAnimation"
         /\ lastOp.blink # <<>>
         /\ lastOp.blink[2] >= BlinkThreshold(0) )
          => currentExpression.eyeOpenness = lastOp.blink[1]
(* C15: one delta-time drives the whole frame, the wall-clock time since   *)
(* the previous frame: the blink timer is checked at its old value plus    *)
(* that difference, and the hair comes out of the frame as the frame's     *)
(* physics calls leave it when they are given that same difference.        *)
C15_OneDeltaTime ==
    [][lastOp'.op = "UpdateAnimation" =>
          LET wall == lastFrame' - lastFrame
          IN /\ lastOp'.timerAtCheck = blinkTimer + wall
             /\ enablePhysics =>
                   hair' = ClothPhysics(HairPhysics(hair, windForce, wall),
                                        skirt, windForce, wall)]_vars
====
